---- MODULE Spec2Model ----
(***************************************************************************)
(* A model of commodities_scraper.py: the table walker (TableParser), the  *)
(* cell normalizers (_parse_number, _parse_percentage, _parse_date) and    *)
(* the ranking engine (CommodityDataManager).                              *)
(*                                                                         *)
(* Text is modelled as a sequence of one-character strings, so that        *)
(* stripping, replacing and splitting are computed and not assumed.  In    *)
(* date texts a month abbreviation is one element ("Nov").                 *)
(***************************************************************************)
EXTENDS Integers, Sequences, FiniteSets, TLC

VARIABLES
    \* TableParser: the rows of the parsed page and the instance fields
    rows,                     \* soup.find_all('tr'), fixed by the constructor
    commodities,              \* self.commodities
    current_asset_category,   \* self.current_asset_category
    pos,                      \* number of rows the running call has walked
    calls,                    \* number of parse_tables calls started
    origin,                   \* history: origin[k] is the walked-row number that produced commodities[k]
    returns,                  \* history: the value each completed call returned
    \* cell normalizers
    text,                     \* the cell text handed to the normalizer
    referenceYear,            \* the year in which the caller parses the page
    out,                      \* the normalizer's result
    \* ranking engine
    df,                       \* CommodityDataManager.df, one record per row
    period,                   \* the metric column of the call
    n,                        \* the n of the call
    result,                   \* the frame the call returned
    \* AlertService
    subscriptions,            \* self.subscriptions
    notification_channels,    \* self.notification_channels, by class
    connected,                \* db_manager.connection is there and is_connected()
    previous,                 \* what the previous-day query answers for (name, asset)
    si,                       \* number of subscriptions the running call has handled
    alerts_sent,              \* the counter of the running call
    evaluated,                \* history: what the loop did with each subscription
    sent,                     \* history: the channel.send calls and what they returned
    \* CommoditiesApp
    html,                     \* what fetch_page answers: the page's rows, or None
    returned,                 \* the value run returned
    runs,                     \* history: the page, the value and the message of each run
    printed,                  \* the message run printed last
    pc                        \* position of the running operation

walkVars == <<rows, commodities, current_asset_category, pos, calls, origin, returns>>
cellVars == <<text, referenceYear, out>>
rankVars == <<df, period, n, result>>
alertVars == <<subscriptions, notification_channels, connected, previous, si,
               alerts_sent, evaluated, sent>>
runVars == <<html, returned, printed, runs>>
appVars == <<alertVars, runVars>>
vars == <<walkVars, cellVars, rankVars, appVars, pc>>

\* the variables of the alert service and of the application while another
\* component is exercised
AppIdle ==
    /\ subscriptions = <<>> /\ notification_channels = <<>> /\ connected = FALSE
    /\ previous = <<>> /\ si = 0 /\ alerts_sent = 0 /\ evaluated = <<>> /\ sent = <<>>
    /\ html = <<>> /\ returned = <<>> /\ printed = "" /\ runs = <<>>


(* Text helpers: Python str methods on sequences of characters.            *)

Whitespace == {" ", "\t", "\n"}

Digits == <<"0", "1", "2", "3", "4", "5", "6", "7", "8", "9">>

IsDigit(c) == \E i \in 1..10 : Digits[i] = c

DigitVal(c) == (CHOOSE i \in 1..10 : Digits[i] = c) - 1

Max(S) == CHOOSE x \in S : \A y \in S : y <= x

Min(S) == CHOOSE x \in S : \A y \in S : x <= y

\* str.strip(): drops leading and trailing whitespace
Strip(s) ==
    LET keep == {i \in 1..Len(s) : s[i] \notin Whitespace}
    IN  IF keep = {} THEN <<>> ELSE SubSeq(s, Min(keep), Max(keep))

\* str.replace(c, ''): drops every occurrence of the character c
RECURSIVE Remove(_, _)
Remove(s, c) ==
    IF s = <<>> THEN <<>>
    ELSE IF Head(s) = c THEN Remove(Tail(s), c)
    ELSE <<Head(s)>> \o Remove(Tail(s), c)

\* str.split(sep): the pieces between the occurrences of sep (always >= 1 piece)
RECURSIVE Split(_, _)
Split(s, sep) ==
    LET at == {i \in 1..Len(s) : s[i] = sep}
    IN  IF at = {} THEN <<s>>
        ELSE <<SubSeq(s, 1, Min(at) - 1)>> \o Split(SubSeq(s, Min(at) + 1, Len(s)), sep)

\* str.rsplit(sep, 1): split once at the last occurrence of sep
RSplit1(s, sep) ==
    LET at == {i \in 1..Len(s) : s[i] = sep}
    IN  IF at = {} THEN <<s>>
        ELSE <<SubSeq(s, 1, Max(at) - 1), SubSeq(s, Max(at) + 1, Len(s))>>

RECURSIVE DigitsToNat(_)
DigitsToNat(s) ==
    IF s = <<>> THEN 0
    ELSE 10 * DigitsToNat(SubSeq(s, 1, Len(s) - 1)) + DigitVal(s[Len(s)])

\* str.lower() on one character (a month abbreviation is one element)
ToLower ==
    [c \in {"A", "B", "C", "D", "E", "F", "G", "H", "I", "J", "K", "L", "M",
            "N", "O", "P", "Q", "R", "S", "T", "U", "V", "W", "X", "Y", "Z",
            "Nov", "Feb"} |->
        CASE c = "A" -> "a" [] c = "B" -> "b" [] c = "C" -> "c" [] c = "D" -> "d"
          [] c = "E" -> "e" [] c = "F" -> "f" [] c = "G" -> "g" [] c = "H" -> "h"
          [] c = "I" -> "i" [] c = "J" -> "j" [] c = "K" -> "k" [] c = "L" -> "l"
          [] c = "M" -> "m" [] c = "N" -> "n" [] c = "O" -> "o" [] c = "P" -> "p"
          [] c = "Q" -> "q" [] c = "R" -> "r" [] c = "S" -> "s" [] c = "T" -> "t"
          [] c = "U" -> "u" [] c = "V" -> "v" [] c = "W" -> "w" [] c = "X" -> "x"
          [] c = "Y" -> "y" [] c = "Z" -> "z"
          [] c = "Nov" -> "nov" [] c = "Feb" -> "feb"]

Lower(c) == IF c \in DOMAIN ToLower THEN ToLower[c] ELSE c

LowerAll(s) == [i \in 1..Len(s) |-> Lower(s[i])]


(* Python floats.  A finite value is mant / 10^scale in lowest form; the   *)
(* sign of zero is not tracked (-0.0 == 0.0 in Python).                    *)

NaN == [kind |-> "nan"]
Inf(neg) == [kind |-> "inf", neg |-> neg]
ValueError == [kind |-> "ValueError"]

RECURSIVE Num(_, _)
Num(mant, scale) ==
    IF mant = 0 THEN [kind |-> "num", mant |-> 0, scale |-> 0]
    ELSE IF scale > 0 /\ mant % 10 = 0 THEN Num(mant \div 10, scale - 1)
    ELSE [kind |-> "num", mant |-> mant, scale |-> scale]

Zero == Num(0, 0)

IsFinite(x) == x.kind = "num"

\* digits with at most one point and at least one digit: "12", "1.5", ".5", "1."
IsDecimal(s) ==
    /\ \A i \in 1..Len(s) : IsDigit(s[i]) \/ s[i] = "."
    /\ Cardinality({i \in 1..Len(s) : s[i] = "."}) <= 1
    /\ \E i \in 1..Len(s) : IsDigit(s[i])

DecimalValue(s) ==
    LET dot == {i \in 1..Len(s) : s[i] = "."}
        scale == IF dot = {} THEN 0 ELSE Len(s) - Max(dot)
    IN  Num(DigitsToNat(Remove(s, ".")), scale)

Negate(x) ==
    IF x.kind = "num" THEN Num(0 - x.mant, x.scale)
    ELSE IF x.kind = "inf" THEN Inf(~x.neg)
    ELSE x

\* float(str): surrounding whitespace, a sign, then inf / infinity / nan in any
\* case or a decimal number; anything else raises ValueError.  Exponents and
\* digit-group underscores are outside the alphabets used here.
Float(s) ==
    LET t == Strip(s)
        signed == t /= <<>> /\ Head(t) \in {"+", "-"}
        body == LowerAll(IF signed THEN Tail(t) ELSE t)
        val == IF body \in {<<"i", "n", "f">>, <<"i", "n", "f", "i", "n", "i", "t", "y">>}
                   THEN Inf(FALSE)
               ELSE IF body = <<"n", "a", "n">> THEN NaN
               ELSE IF IsDecimal(body) THEN DecimalValue(body)
               ELSE ValueError
    IN  IF signed /\ Head(t) = "-" THEN Negate(val) ELSE val


(* CellNormalizer                                                          *)

\* TableParser._parse_number
ParseNumber(s) ==
    LET cleaned == Strip(Remove(Remove(s, ","), " "))
        v == Float(cleaned)
    IN  IF v = ValueError THEN Zero ELSE v

\* TableParser._parse_percentage
ParsePercentage(s) ==
    LET cleaned == Strip(Remove(Remove(s, "%"), " "))
        v == Float(cleaned)
    IN  IF cleaned = <<>> \/ cleaned = <<"-">> THEN Zero
        ELSE IF v = ValueError THEN Zero ELSE v

(* Dates: datetime.strptime(data, "%b %d %Y") and strftime("%Y/%m/%d").    *)

\* the locale's abbreviated month names, as _strptime lower-cases them
MonthAbbr == <<"jan", "feb", "mar", "apr", "may", "jun",
               "jul", "aug", "sep", "oct", "nov", "dec">>

\* 1..12 for a month abbreviation in any case, 0 for anything else
MonthNum(a) ==
    IF \E i \in 1..12 : MonthAbbr[i] = Lower(a)
    THEN CHOOSE i \in 1..12 : MonthAbbr[i] = Lower(a)
    ELSE 0

IsLeap(y) == (y % 4 = 0 /\ y % 100 /= 0) \/ y % 400 = 0

DaysIn(m, y) ==
    IF m = 2 THEN (IF IsLeap(y) THEN 29 ELSE 28)
    ELSE IF m \in {4, 6, 9, 11} THEN 30 ELSE 31

\* %d: 3[0-1] | [1-2]\d | 0[1-9] | [1-9]
IsDayToken(t) ==
    /\ Len(t) \in {1, 2}
    /\ \A i \in 1..Len(t) : IsDigit(t[i])
    /\ DigitsToNat(t) \in 1..31

IsSpaces(t) == t /= <<>> /\ \A i \in 1..Len(t) : t[i] \in Whitespace

\* _strptime: the whole of data must match  %b \s+ %d \s+ %Y  and the day
\* must exist in the month; otherwise ValueError.
Strptime(data) ==
    LET L == Len(data)
        fits == {ab \in (1..L) \X (1..L) :
                    /\ 3 <= ab[1] /\ ab[1] <= ab[2] /\ ab[2] + 2 <= L - 3
                    /\ MonthNum(data[1]) /= 0
                    /\ IsSpaces(SubSeq(data, 2, ab[1] - 1))
                    /\ IsDayToken(SubSeq(data, ab[1], ab[2]))
                    /\ IsSpaces(SubSeq(data, ab[2] + 1, L - 4))
                    /\ \A i \in (L - 3)..L : IsDigit(data[i])}
    IN  IF fits = {} THEN ValueError
        ELSE LET ab == CHOOSE x \in fits : TRUE
                 m == MonthNum(data[1])
                 d == DigitsToNat(SubSeq(data, ab[1], ab[2]))
                 y == DigitsToNat(SubSeq(data, L - 3, L))
             IN  IF d <= DaysIn(m, y)
                 THEN [kind |-> "date", year |-> y, month |-> m, day |-> d]
                 ELSE ValueError

\* str(int) for a natural number
RECURSIVE NatToDigits(_)
NatToDigits(k) ==
    IF k < 10 THEN <<Digits[k + 1]>>
    ELSE NatToDigits(k \div 10) \o <<Digits[(k % 10) + 1]>>

\* zero-padded to at least w digits
RECURSIVE Pad(_, _)
Pad(s, w) == IF Len(s) >= w THEN s ELSE Pad(<<"0">> \o s, w)

\* date.strftime("%Y/%m/%d")
Strftime(y, m, d) ==
    Pad(NatToDigits(y), 4) \o <<"/">> \o Pad(NatToDigits(m), 2)
        \o <<"/">> \o Pad(NatToDigits(d), 2)

\* the year _parse_date writes into every date
Year == 2025

\* _parse_date with the fallbacks returning the stripped text (mutant)
ParseDateStripped(date_str) ==
    IF date_str = <<>> \/ Strip(date_str) = <<>> THEN <<>>
    ELSE LET parts == Split(Strip(date_str), "/")
         IN  IF Len(parts) = 2
             THEN LET date_obj == Strptime(parts[1] \o <<" ">> \o parts[2]
                                           \o <<" ">> \o NatToDigits(Year))
                  IN  IF date_obj = ValueError THEN Strip(date_str)
                      ELSE Strftime(date_obj.year, date_obj.month, date_obj.day)
             ELSE Strip(date_str)

\* TableParser._parse_date
ParseDate(date_str) ==
    IF date_str = <<>> \/ Strip(date_str) = <<>> THEN <<>>
    ELSE LET parts == Split(Strip(date_str), "/")
         IN  IF Len(parts) = 2
             THEN LET date_obj == Strptime(parts[1] \o <<" ">> \o parts[2]
                                           \o <<" ">> \o NatToDigits(Year))
                  IN  IF date_obj = ValueError THEN date_str
                      ELSE Strftime(date_obj.year, date_obj.month, date_obj.day)
             ELSE date_str

(* RowExtractor.  A cell is the sequence of its text nodes; a row is the   *)
(* content of its first th cell (if any), its td cells, and whether field  *)
(* extraction raises on it.                                                *)

\* Tag.get_text(strip=True): the stripped text nodes, joined
RECURSIVE GetText(_)
GetText(frags) ==
    IF frags = <<>> THEN <<>> ELSE Strip(Head(frags)) \o GetText(Tail(frags))

\* [elem.strip() for elem in text_elements if elem.strip()]
RECURSIVE CleanElements(_)
CleanElements(frags) ==
    IF frags = <<>> THEN <<>>
    ELSE IF Strip(Head(frags)) = <<>> THEN CleanElements(Tail(frags))
    ELSE <<Strip(Head(frags))>> \o CleanElements(Tail(frags))

\* TableParser._split_name_unit_from_cell: <<name, unit>>
SplitNameUnitFromCell(cell) ==
    LET clean_elements == CleanElements(cell)
    IN  IF Len(clean_elements) >= 2 THEN <<clean_elements[1], clean_elements[2]>>
        ELSE IF Len(clean_elements) = 1
             THEN LET parts == RSplit1(clean_elements[1], " ")
                  IN  IF Len(parts) = 2 THEN parts ELSE <<clean_elements[1], <<>>>>
        ELSE <<<<>>, <<>>>>

None == [none |-> TRUE]

\* _parse_row that emits a record of defaults for a row it cannot extract (mutant)
ParseRowKeepsFaulty(row, asset_category) ==
    [asset |-> asset_category, name |-> <<>>, unit |-> <<>>, price |-> Zero,
     change |-> Zero, daily_pct |-> Zero, weekly_pct |-> Zero, monthly_pct |-> Zero,
     yearly_pct |-> Zero, three_year_pct |-> Zero, date |-> <<>>]

\* TableParser._parse_row: the Commodity of a row of >= 8 cells, or None when
\* anything raises during extraction
ParseRow(row, asset_category) ==
    IF row.fault THEN None
    ELSE LET cell_texts == [i \in 1..Len(row.cells) |-> GetText(row.cells[i])]
             name_unit == SplitNameUnitFromCell(row.cells[1])
             date_raw == IF Len(cell_texts) > 8 THEN cell_texts[9] ELSE <<>>
         IN  [asset |-> asset_category,
              name |-> name_unit[1],
              unit |-> name_unit[2],
              price |-> ParseNumber(cell_texts[2]),
              change |-> ParseNumber(cell_texts[3]),
              daily_pct |-> ParsePercentage(cell_texts[4]),
              weekly_pct |-> ParsePercentage(cell_texts[5]),
              monthly_pct |-> ParsePercentage(cell_texts[6]),
              yearly_pct |-> ParsePercentage(cell_texts[7]),
              three_year_pct |-> ParsePercentage(cell_texts[8]),
              date |-> ParseDate(date_raw)]

(* TableWalker                                                             *)

Unknown == <<"U", "n", "k", "n", "o", "w", "n">>

\* the header texts parse_tables does not take for a category
ColumnLabels ==
    { <<"P", "r", "i", "c", "e">>, <<"D", "a", "y">>, <<"%">>, <<"W", "e", "e", "k">>,
      <<"M", "o", "n", "t", "h">>, <<"Y", "e", "a", "r">>, <<"3", "Y">> }

\* the least number of td cells of a commodity row
MinCols == 8

\* the header branch without the column-label test (mutant)
NextCategoryAnyText(row, category) ==
    LET header_text == GetText(row.th.frags)
    IN  IF header_text /= <<>> THEN header_text ELSE category

\* the header branch without the empty-text test (mutant)
NextCategoryAllowEmpty(row, category) ==
    LET header_text == GetText(row.th.frags)
    IN  IF header_text \notin ColumnLabels THEN header_text ELSE category

\* the header branch of parse_tables: the tracked category after a row with a
\* th cell
NextCategory(row, category) ==
    LET header_text == GetText(row.th.frags)
    IN  IF header_text /= <<>> /\ header_text \notin ColumnLabels
        THEN header_text ELSE category

\* a record put in front of the list (mutant)
Prepended(list, commodity) == <<commodity>> \o list

\* self.commodities.append(commodity)
Appended(list, commodity) == Append(list, commodity)

(* The pages the walker is run on.                                         *)

Th(frags) == [present |-> TRUE, frags |-> frags]

NoTh == [present |-> FALSE, frags |-> <<>>]

HeaderRow(frags) == [th |-> Th(frags), cells |-> <<>>, fault |-> FALSE]

T1 == << <<"1">> >>

GoldCells ==
    << << <<"G", "o", "l", "d">>, <<" ">>, <<"U", "S", "D">> >>,
       << <<"1", ",", "0", "2", ".", "5">> >>, T1, << <<"1", "%">> >>,
       << <<"-", "2", "%">> >>, T1, T1, << <<"-">> >>,
       << <<"Nov", "/", "2", "8">> >> >>

OilCells ==
    << << <<"O", "i", "l", " ", "B", "b", "l">> >>,
       << <<"7">> >>, << <<"-">> >>, << <<" ", "3", "%">> >>, T1, T1, T1, << >> >>

EnergyTh == << <<"E", "n", "e", "r", "g", "y">> >>

MetalsTh == << <<" ", "M", "e">>, <<"t", "a", "l", "s", " ">> >>

BlankTh == << <<" ">> >>

AgriTh == << <<"A", "g", "r", "i">> >>

\* the column-legend header cells, one padded and one in two text nodes
LegendThs ==
    { << <<" ", "P", "r", "i", "c", "e", " ">> >>, << <<"D", "a", "y">> >>, << <<"%">> >>,
      << <<"W", "e", "e", "k">> >>, << <<"M", "o", "n", "t", "h">> >>,
      << <<"Y", "e", "a", "r">> >>, << <<"3">>, <<"Y">> >> }

LegendRows == {HeaderRow(f) : f \in LegendThs}

BaseRows ==
    { HeaderRow(EnergyTh), HeaderRow(MetalsTh), HeaderRow(BlankTh),
      [th |-> Th(AgriTh), cells |-> OilCells, fault |-> FALSE],
      [th |-> NoTh, cells |-> GoldCells, fault |-> FALSE],
      [th |-> NoTh, cells |-> OilCells, fault |-> FALSE],
      [th |-> NoTh, cells |-> OilCells, fault |-> TRUE],
      [th |-> NoTh, cells |-> SubSeq(OilCells, 1, 7), fault |-> FALSE] }

MaxRows == 3

MaxCalls == 2

\* a page of at most MaxRows rows with at most one column-legend row
IsPage(t) == Cardinality({i \in 1..Len(t) : t[i] \in LegendRows}) <= 1

(* parse_tables, one row per step.                                         *)

InitWalk ==
    /\ \E len \in 0..MaxRows : \E t \in [1..len -> BaseRows \cup LegendRows] :
          IsPage(t) /\ rows = t
    /\ commodities = <<>>
    /\ current_asset_category = Unknown
    /\ pos = 0 /\ calls = 0 /\ origin = <<>> /\ returns = <<>>
    /\ text = <<>> /\ referenceYear = Year /\ out = <<>>
    /\ df = <<>> /\ period = "Daily %" /\ n = 0 /\ result = <<>>
    /\ AppIdle
    /\ pc = "ready"

\* number of rows this parser has walked since its construction
WalkedLen == IF calls = 0 THEN 0 ELSE (calls - 1) * Len(rows) + pos

\* the i-th row this parser walked
RowAt(i) == rows[((i - 1) % Len(rows)) + 1]

\* a call of parse_tables starts at the first row, on the fields as they are
CallParseTables ==
    /\ pc = "ready" /\ calls < MaxCalls
    /\ calls' = calls + 1 /\ pos' = 0 /\ pc' = "walking"
    /\ UNCHANGED <<rows, commodities, current_asset_category, origin, returns,
                   cellVars, rankVars, appVars>>

\* a row with a th cell: the category may change, the row is skipped
WalkHeaderRow ==
    /\ pc = "walking" /\ pos < Len(rows)
    /\ rows[pos + 1].th.present
    /\ current_asset_category' = NextCategory(rows[pos + 1], current_asset_category)
    /\ pos' = pos + 1
    /\ UNCHANGED <<rows, commodities, calls, origin, returns, cellVars, rankVars, appVars, pc>>

\* a row without th cell and with at least MinCols td cells
WalkDataRow ==
    /\ pc = "walking" /\ pos < Len(rows)
    /\ ~rows[pos + 1].th.present
    /\ Len(rows[pos + 1].cells) >= MinCols
    /\ LET commodity == ParseRow(rows[pos + 1], current_asset_category)
       IN  IF commodity /= None
           THEN /\ commodities' = Appended(commodities, commodity)
                /\ origin' = Append(origin, WalkedLen + 1)
           ELSE UNCHANGED <<commodities, origin>>
    /\ pos' = pos + 1
    /\ UNCHANGED <<rows, current_asset_category, calls, returns, cellVars, rankVars, appVars, pc>>

\* any other row
WalkOtherRow ==
    /\ pc = "walking" /\ pos < Len(rows)
    /\ ~rows[pos + 1].th.present
    /\ Len(rows[pos + 1].cells) < MinCols
    /\ pos' = pos + 1
    /\ UNCHANGED <<rows, commodities, current_asset_category, calls, origin, returns,
                   cellVars, rankVars, appVars, pc>>

\* return self.commodities
ReturnCommodities ==
    /\ pc = "walking" /\ pos = Len(rows)
    /\ returns' = Append(returns, commodities)
    /\ pc' = "ready"
    /\ UNCHANGED <<rows, commodities, current_asset_category, pos, calls, origin,
                   cellVars, rankVars, appVars>>

Next ==
    \/ CallParseTables
    \/ WalkHeaderRow
    \/ WalkDataRow
    \/ WalkOtherRow
    \/ ReturnCommodities

Spec == InitWalk /\ [][Next]_vars

(* RankingEngine.  df is a sequence of rows; a percentage is an integer.   *)
(* An entry of a result keeps the number of the df row it was taken from   *)
(* (its index label before ignore_index) in the field row.                 *)

Periods == <<"Daily %", "Weekly %", "Monthly %", "Yearly %">>

\* the columns of pd.DataFrame(data), data a list of dicts: the keys of the
\* dicts, none when the list is empty
Columns(frame) == IF frame = <<>> THEN {} ELSE DOMAIN frame[1]

HasColumn(frame, col) == col \in Columns(frame)

\* what self.df[col] and self.df.nlargest(n, col) raise when df has no such
\* column
KeyError(col) == [raised |-> "KeyError", key |-> col]

\* df['Asset'].unique(): the categories in first-seen order
RECURSIVE UniqueAssets(_, _)
UniqueAssets(frame, seen) ==
    IF frame = <<>> THEN <<>>
    ELSE IF Head(frame).Asset \in seen THEN UniqueAssets(Tail(frame), seen)
    ELSE <<Head(frame).Asset>> \o UniqueAssets(Tail(frame), seen \cup {Head(frame).Asset})

\* the df row numbers of ix whose Asset is category, in the order of ix
RECURSIVE SelectRows(_, _, _)
SelectRows(frame, ix, category) ==
    IF ix = <<>> THEN <<>>
    ELSE IF frame[Head(ix)].Asset = category
         THEN <<Head(ix)>> \o SelectRows(frame, Tail(ix), category)
         ELSE SelectRows(frame, Tail(ix), category)

\* self.df[self.df['Asset'] == category], as df row numbers in df order
CategoryRows(frame, category) ==
    SelectRows(frame, [i \in 1..Len(frame) |-> i], category)

\* s without its p-th element
DropAt(s, p) == SubSeq(s, 1, p - 1) \o SubSeq(s, p + 1, Len(s))

\* the position in ix of the largest value of the column, the last one on ties (mutant)
LastMaxPos(frame, ix, col) ==
    Max({p \in 1..Len(ix) :
            \A q \in 1..Len(ix) : frame[ix[q]][col] <= frame[ix[p]][col]})

\* the position in ix of the largest value of the column, the first one on ties
FirstMaxPos(frame, ix, col) ==
    Min({p \in 1..Len(ix) :
            \A q \in 1..Len(ix) : frame[ix[q]][col] <= frame[ix[p]][col]})

\* DataFrame.nlargest(k, col), keep='first': the k rows of ix with the largest
\* values, in descending order, equal values in their order in ix
RECURSIVE NLargest(_, _, _, _)
NLargest(frame, ix, k, col) ==
    IF k <= 0 \/ ix = <<>> THEN <<>>
    ELSE LET p == FirstMaxPos(frame, ix, col)
         IN  <<ix[p]>> \o NLargest(frame, DropAt(ix, p), k - 1, col)

\* top_n[['Asset', 'Name', ..., period, ...]] for one category
RECURSIVE TopEntries(_, _, _)
TopEntries(frame, ix, col) ==
    IF ix = <<>> THEN <<>>
    ELSE << [row |-> Head(ix), Asset |-> frame[Head(ix)].Asset,
             Name |-> frame[Head(ix)].Name, Value |-> frame[Head(ix)][col]] >>
         \o TopEntries(frame, Tail(ix), col)

\* the loop of get_top_by_category over the categories, and pd.concat
RECURSIVE ConcatTop(_, _, _, _)
ConcatTop(frame, categories, k, col) ==
    IF categories = <<>> THEN <<>>
    ELSE TopEntries(frame, NLargest(frame, CategoryRows(frame, Head(categories)), k, col), col)
         \o ConcatTop(frame, Tail(categories), k, col)

\* CommodityDataManager.get_top_performers
GetTopPerformers(frame, col, k) ==
    TopEntries(frame, NLargest(frame, [i \in 1..Len(frame) |-> i], k, col), col)

\* CommodityDataManager.get_top_by_category
GetTopByCategory(frame, col, k) ==
    ConcatTop(frame, UniqueAssets(frame, {}), k, col)

\* the k of the per-period nlargest(3, ...) of get_strong_leads
TopK == 3

\* the elements of a sequence, as a set
Range(s) == {s[i] : i \in 1..Len(s)}

\* set(category_df.nlargest(3, col)['Name'].values)
TopNames(frame, ix, col) ==
    {frame[i].Name : i \in Range(NLargest(frame, ix, TopK, col))}

\* top3_daily, top3_weekly, top3_monthly, top3_yearly of one category
Top3Sets(frame, ix) ==
    [x \in 1..4 |-> TopNames(frame, ix, Periods[x])]

\* the union without the yearly top 3 (mutant)
StrongLeadNamesNoYearly(top3) == top3[1] \cup top3[2] \cup top3[3]

\* top3_daily | top3_weekly | top3_monthly | top3_yearly
StrongLeadNames(top3) == top3[1] \cup top3[2] \cup top3[3] \cup top3[4]

PeriodLetters == <<"D", "W", "M", "Y">>

\* count_top3_appearances without the yearly top 3 (mutant)
RECURSIVE MatchedPeriodsNoYearly(_, _, _)
MatchedPeriodsNoYearly(top3, name, x) ==
    IF x > 3 THEN <<>>
    ELSE (IF name \in top3[x] THEN <<PeriodLetters[x]>> ELSE <<>>)
         \o MatchedPeriodsNoYearly(top3, name, x + 1)

\* count_top3_appearances: the periods, in the order D, W, M, Y, in whose top 3
\* the name is
RECURSIVE MatchedPeriods(_, _, _)
MatchedPeriods(top3, name, x) ==
    IF x > 4 THEN <<>>
    ELSE (IF name \in top3[x] THEN <<PeriodLetters[x]>> ELSE <<>>)
         \o MatchedPeriods(top3, name, x + 1)

\* leads_df built from the rows that are themselves among the three largest of
\* a period, not from the rows whose Name is a strong lead (mutant)
RECURSIVE LeadEntriesByRecord(_, _, _, _)
LeadEntriesByRecord(frame, top3, strong_leads, rest) ==
    IF rest = <<>> THEN <<>>
    ELSE LET i == Head(rest)
             periods == MatchedPeriods(top3, frame[i].Name, 1)
             ix == CategoryRows(frame, frame[i].Asset)
         IN  (IF \E x \in 1..4 : i \in Range(NLargest(frame, ix, TopK, Periods[x]))
              THEN << [row |-> i, Asset |-> frame[i].Asset, Name |-> frame[i].Name,
                       Daily |-> frame[i]["Daily %"], Weekly |-> frame[i]["Weekly %"],
                       Monthly |-> frame[i]["Monthly %"], Yearly |-> frame[i]["Yearly %"],
                       match_count |-> Len(periods), periods |-> periods] >>
              ELSE <<>>)
             \o LeadEntriesByRecord(frame, top3, strong_leads, Tail(rest))

\* leads_df of one category: its rows whose Name is a strong lead, in df order,
\* with the Match column
RECURSIVE LeadEntries(_, _, _, _)
LeadEntries(frame, top3, strong_leads, rest) ==
    IF rest = <<>> THEN <<>>
    ELSE LET i == Head(rest)
             periods == MatchedPeriods(top3, frame[i].Name, 1)
         IN  (IF frame[i].Name \in strong_leads
              THEN << [row |-> i, Asset |-> frame[i].Asset, Name |-> frame[i].Name,
                       Daily |-> frame[i]["Daily %"], Weekly |-> frame[i]["Weekly %"],
                       Monthly |-> frame[i]["Monthly %"], Yearly |-> frame[i]["Yearly %"],
                       match_count |-> Len(periods), periods |-> periods] >>
              ELSE <<>>)
             \o LeadEntries(frame, top3, strong_leads, Tail(rest))

\* the loop of get_strong_leads over the categories, and pd.concat
RECURSIVE ConcatLeads(_, _)
ConcatLeads(frame, categories) ==
    IF categories = <<>> THEN <<>>
    ELSE LET ix == CategoryRows(frame, Head(categories))
             top3 == Top3Sets(frame, ix)
         IN  LeadEntries(frame, top3, StrongLeadNames(top3), ix)
             \o ConcatLeads(frame, Tail(categories))

\* get_strong_leads.sort_key
SortKey(e) ==
    IF e.match_count = 1 THEN <<e.match_count, e.Daily, e.Weekly>>
    ELSE <<e.match_count, e.Weekly, e.Monthly>>

\* tuple comparison: a < b
KeyLess(a, b) ==
    \/ a[1] < b[1]
    \/ a[1] = b[1] /\ a[2] < b[2]
    \/ a[1] = b[1] /\ a[2] = b[2] /\ a[3] < b[3]

\* sort_values('_sort_tuple', ascending=False) with the default
\* kind='quicksort', which is not a stable sort: the orders it can give are the
\* descending ones, entries of equal key in any order
RECURSIVE SortValues(_)
SortValues(entries) ==
    IF entries = <<>> THEN {<<>>}
    ELSE UNION { {<<entries[p]>> \o s : s \in SortValues(DropAt(entries, p))} :
                 p \in {q \in 1..Len(entries) :
                           \A r \in 1..Len(entries) :
                               ~KeyLess(SortKey(entries[q]), SortKey(entries[r]))} }

\* the Rank_Asset column counted over all entries, not per Asset (mutant)
WithRanksUngrouped(entries) ==
    [p \in 1..Len(entries) |->
        [x \in (DOMAIN entries[p]) \cup {"Rank", "Rank_Asset"} |->
            IF x \in {"Rank", "Rank_Asset"} THEN p ELSE entries[p][x]]]

\* the Rank column and the Rank_Asset column (groupby('Asset').cumcount() + 1)
WithRanks(entries) ==
    [p \in 1..Len(entries) |->
        [x \in (DOMAIN entries[p]) \cup {"Rank", "Rank_Asset"} |->
            IF x = "Rank" THEN p
            ELSE IF x = "Rank_Asset"
                 THEN Cardinality({q \in 1..p : entries[q].Asset = entries[p].Asset})
            ELSE entries[p][x]]]

\* CommodityDataManager.get_strong_leads: the frames it can return
GetStrongLeads(frame) ==
    {WithRanks(s) : s \in SortValues(ConcatLeads(frame, UniqueAssets(frame, {})))}

\* the three timeframes of get_investment_opportunities: the key of the bucket,
\* the column nlargest ranks by, the column that confirms it, the columns kept
\* and the Timeframe label
Timeframes ==
    << [key |-> "short_term", primary |-> "Daily %", confirm |-> "Weekly %",
        kept |-> {"Daily %", "Weekly %"}, label |-> "Short-term"],
       [key |-> "mid_term", primary |-> "Weekly %", confirm |-> "Monthly %",
        kept |-> {"Weekly %", "Monthly %"}, label |-> "Mid-term"],
       [key |-> "long_term", primary |-> "Yearly %", confirm |-> "Monthly %",
        kept |-> {"Monthly %", "Yearly %"}, label |-> "Long-term"] >>

\* category_df[(category_df[colA] >= 0) & (category_df[colB] >= 0)] (mutant)
RECURSIVE BothNonNegative(_, _, _, _)
BothNonNegative(frame, ix, colA, colB) ==
    IF ix = <<>> THEN <<>>
    ELSE (IF frame[Head(ix)][colA] >= 0 /\ frame[Head(ix)][colB] >= 0
          THEN <<Head(ix)>> ELSE <<>>)
         \o BothNonNegative(frame, Tail(ix), colA, colB)

\* category_df[(category_df[colA] > 0) & (category_df[colB] > 0)]
RECURSIVE BothPositive(_, _, _, _)
BothPositive(frame, ix, colA, colB) ==
    IF ix = <<>> THEN <<>>
    ELSE (IF frame[Head(ix)][colA] > 0 /\ frame[Head(ix)][colB] > 0
          THEN <<Head(ix)>> ELSE <<>>)
         \o BothPositive(frame, Tail(ix), colA, colB)

\* the candidates taken with nlargest(2, primary) (mutant)
CandidatesTopTwo(frame, ix, tf) ==
    LET top == NLargest(frame, BothPositive(frame, ix, tf.primary, tf.confirm),
                        2, tf.primary)
    IN  [p \in 1..Len(top) |->
            [x \in {"row", "Asset", "Name", "Timeframe"} \cup tf.kept |->
                CASE x = "row" -> top[p]
                  [] x = "Timeframe" -> tf.label
                  [] OTHER -> frame[top[p]][x]]]

\* ....nlargest(1, primary)[['Asset', 'Name', ..., 'Date']] with the Timeframe
\* column: the candidates of one category for one timeframe, none or one
Candidates(frame, ix, tf) ==
    LET top == NLargest(frame, BothPositive(frame, ix, tf.primary, tf.confirm),
                        1, tf.primary)
    IN  [p \in 1..Len(top) |->
            [x \in {"row", "Asset", "Name", "Timeframe"} \cup tf.kept |->
                CASE x = "row" -> top[p]
                  [] x = "Timeframe" -> tf.label
                  [] OTHER -> frame[top[p]][x]]]

\* opportunities[key] after the loop over the categories, and pd.concat
RECURSIVE ConcatCandidates(_, _, _)
ConcatCandidates(frame, categories, tf) ==
    IF categories = <<>> THEN <<>>
    ELSE Candidates(frame, CategoryRows(frame, Head(categories)), tf)
         \o ConcatCandidates(frame, Tail(categories), tf)

TimeframeKeys == {Timeframes[x].key : x \in 1..Len(Timeframes)}

TimeframeOf(key) == Timeframes[CHOOSE x \in 1..Len(Timeframes) : Timeframes[x].key = key]

\* CommodityDataManager.get_investment_opportunities
GetInvestmentOpportunities(frame) ==
    [key \in TimeframeKeys |->
        WithRanks(ConcatCandidates(frame, UniqueAssets(frame, {}), TimeframeOf(key)))]

(* Idle values of the variables an operation does not use.                 *)

WalkIdle ==
    /\ rows = <<>> /\ commodities = <<>> /\ current_asset_category = Unknown
    /\ pos = 0 /\ calls = 0 /\ origin = <<>> /\ returns = <<>>

CellIdle == text = <<>> /\ referenceYear = Year /\ out = <<>>

RankIdle == df = <<>> /\ period = "Daily %" /\ n = 0 /\ result = <<>>

(* The frames the ranking engine is run on: sequences of rows over two     *)
(* categories and a few percentage profiles (daily, weekly, monthly,       *)
(* yearly), with names that are all different or with one name on every    *)
(* other row.  The strong leads are taken from every frame of at most      *)
(* MaxMixedRecs rows and from the frames of one category of at most        *)
(* MaxRecs rows.                                                           *)

Assets == {"Energy", "Metals"}

Profiles == { <<5, 1, 1, 1>>, <<1, 5, 1, 1>>, <<1, 1, 5, 1>>, <<-2, 3, 0, 5>> }

LeadProfiles == { <<5, 1, 1, 1>>, <<1, 5, 1, 1>>, <<-2, 3, 0, 5>> }

UniqueNames == <<"a", "b", "c", "d", "e", "f", "g">>

SharedNames == <<"a", "b", "a", "d", "a", "f", "a">>

MaxRecs == 5

MaxMixedRecs == 4

MaxTopRecs == 4

MaxN == 3

FrameRow(asset, name, profile) ==
    [x \in {"Asset", "Name", "Daily %", "Weekly %", "Monthly %", "Yearly %"} |->
        CASE x = "Asset" -> asset
          [] x = "Name" -> name
          [] x = "Daily %" -> profile[1]
          [] x = "Weekly %" -> profile[2]
          [] x = "Monthly %" -> profile[3]
          [] x = "Yearly %" -> profile[4]]

\* CommodityDataManager._create_dataframe
Frame(t, names) == [i \in 1..Len(t) |-> FrameRow(t[i][1], names[i], t[i][2])]

InitTop ==
    /\ WalkIdle /\ CellIdle /\ AppIdle
    /\ \E len \in 0..MaxTopRecs : \E t \in [1..len -> Assets \X Profiles] :
          df = Frame(t, UniqueNames)
    /\ period = "Daily %" /\ n = 0 /\ result = <<>>
    /\ pc = "frame"

CallGetTopByCategory ==
    /\ pc = "frame"
    /\ \E col \in Range(Periods) : \E k \in 0..MaxN :
          /\ period' = col
          /\ n' = k
          /\ IF HasColumn(df, "Asset")
             THEN result' = GetTopByCategory(df, col, k) /\ pc' = "top"
             ELSE result' = KeyError("Asset") /\ pc' = "raised"
    /\ UNCHANGED <<walkVars, cellVars, appVars, df>>

NextTop == CallGetTopByCategory

SpecTop == InitTop /\ [][NextTop]_vars

InitLeads ==
    /\ WalkIdle /\ CellIdle /\ AppIdle
    /\ \E len \in 0..MaxRecs : \E t \in [1..len -> Assets \X LeadProfiles] :
          \E names \in {UniqueNames, SharedNames} :
              /\ len <= MaxMixedRecs \/ \A i \in 1..len : t[i][1] = t[1][1]
              /\ df = Frame(t, names)
    /\ period = "Daily %" /\ n = 0 /\ result = <<>>
    /\ pc = "frame"

CallGetStrongLeads ==
    /\ pc = "frame"
    /\ IF HasColumn(df, "Asset")
       THEN result' \in GetStrongLeads(df) /\ pc' = "leads"
       ELSE result' = KeyError("Asset") /\ pc' = "raised"
    /\ UNCHANGED <<walkVars, cellVars, appVars, df, period, n>>

NextLeads == CallGetStrongLeads

SpecLeads == InitLeads /\ [][NextLeads]_vars

(* The frames the investment opportunities are taken from: the profiles   *)
(* hold a record whose daily% is the largest while its weekly% is         *)
(* negative, and one whose yearly% is the largest while its monthly% is 0. *)

OppProfiles == { <<5, 1, 1, 1>>, <<1, 5, 1, 1>>, <<-2, 3, 0, 5>>, <<7, -1, 2, 0>> }

MaxOppRecs == 4

InitOpp ==
    /\ WalkIdle /\ CellIdle /\ AppIdle
    /\ \E len \in 0..MaxOppRecs : \E t \in [1..len -> Assets \X OppProfiles] :
          df = Frame(t, UniqueNames)
    /\ period = "Daily %" /\ n = 0 /\ result = <<>>
    /\ pc = "frame"

CallGetInvestmentOpportunities ==
    /\ pc = "frame"
    /\ IF HasColumn(df, "Asset")
       THEN result' = GetInvestmentOpportunities(df) /\ pc' = "opportunities"
       ELSE result' = KeyError("Asset") /\ pc' = "raised"
    /\ UNCHANGED <<walkVars, cellVars, appVars, df, period, n>>

NextOpp == CallGetInvestmentOpportunities \/ CallGetStrongLeads

SpecOpp == InitOpp /\ [][NextOpp]_vars

(* The four ranking operations on the small frames, the frame of no       *)
(* records among them.                                                     *)

MaxSmallRecs == 2

InitRanking ==
    /\ WalkIdle /\ CellIdle /\ AppIdle
    /\ \E len \in 0..MaxSmallRecs : \E t \in [1..len -> Assets \X OppProfiles] :
          df = Frame(t, UniqueNames)
    /\ period = "Daily %" /\ n = 0 /\ result = <<>>
    /\ pc = "frame"

CallGetTopPerformers ==
    /\ pc = "frame"
    /\ \E col \in Range(Periods) : \E k \in 0..MaxN :
          /\ period' = col
          /\ n' = k
          /\ IF HasColumn(df, col)
             THEN result' = GetTopPerformers(df, col, k) /\ pc' = "performers"
             ELSE result' = KeyError(col) /\ pc' = "raised"
    /\ UNCHANGED <<walkVars, cellVars, appVars, df>>

NextRanking ==
    \/ CallGetTopPerformers
    \/ CallGetTopByCategory
    \/ CallGetStrongLeads
    \/ CallGetInvestmentOpportunities

SpecRanking == InitRanking /\ [][NextRanking]_vars

(* The number normalizers applied to every short text over NumChars.       *)

NumChars == {"1", "0", "-", ".", ",", " ", "%", "n", "a", "i", "f"}

MaxTextLen == 3

InitNumber ==
    /\ WalkIdle /\ RankIdle /\ AppIdle
    /\ \E len \in 0..MaxTextLen : text \in [1..len -> NumChars]
    /\ referenceYear = Year
    /\ out = <<>>
    /\ pc = "text"

CallParseNumber ==
    /\ pc = "text"
    /\ out' = ParseNumber(text)
    /\ pc' = "number"
    /\ UNCHANGED <<walkVars, rankVars, appVars, text, referenceYear>>

CallParsePercentage ==
    /\ pc = "text"
    /\ out' = ParsePercentage(text)
    /\ pc' = "percentage"
    /\ UNCHANGED <<walkVars, rankVars, appVars, text, referenceYear>>

NextNumber == CallParseNumber \/ CallParsePercentage

SpecNumber == InitNumber /\ [][NextNumber]_vars

(* The date normalizer applied to every short text over DateAtoms, in a    *)
(* year the caller chooses.                                                *)

DateAtoms == {"Nov", "Feb", "Xyz", "/", " ", "2", "8", "0", "3"}

MaxDateLen == 4

ReferenceYears == {2025, 2026}

InitDate ==
    /\ WalkIdle /\ RankIdle /\ AppIdle
    /\ \E len \in 0..MaxDateLen : text \in [1..len -> DateAtoms]
    /\ referenceYear \in ReferenceYears
    /\ out = <<>>
    /\ pc = "text"

CallParseDate ==
    /\ pc = "text"
    /\ out' = ParseDate(text)
    /\ pc' = "date"
    /\ UNCHANGED <<walkVars, rankVars, appVars, text, referenceYear>>

NextDate == CallParseDate

SpecDate == InitDate /\ [][NextDate]_vars

(* The name/unit splitter applied to a cell: text holds the cell's text    *)
(* nodes, a first node over CellChars followed by one of CellRests.        *)

CellChars == {"G", "t", " ", "\t"}

MaxFragLen == 3

Usd == <<"U", "S", "D">>

CellRests ==
    { <<>>, << <<" ">> >>, << Usd >>, << <<"\n">>, <<" ", "U", " ">> >>,
      << Usd, <<"K">> >> }

InitCell ==
    /\ WalkIdle /\ RankIdle /\ AppIdle
    /\ \/ text = <<>>
       \/ \E len \in 0..MaxFragLen : \E first \in [1..len -> CellChars] :
             \E rest \in CellRests : text = <<first>> \o rest
    /\ referenceYear = Year
    /\ out = <<>>
    /\ pc = "cell"

CallSplitNameUnitFromCell ==
    /\ pc = "cell"
    /\ out' = SplitNameUnitFromCell(text)
    /\ pc' = "name_unit"
    /\ UNCHANGED <<walkVars, rankVars, appVars, text, referenceYear>>

NextCell == CallSplitNameUnitFromCell

SpecCell == InitCell /\ [][NextCell]_vars

(* AlertService.  A price is a whole number of tenths (100.5 is 1005) and  *)
(* a threshold a whole number of tenths of a percent (1.0 is 10); a        *)
(* percent change is kept as the exact quotient num / den, den > 0.  The   *)
(* prices of the model are ones on which the float arithmetic of the code  *)
(* is exact.                                                               *)

Abs(x) == IF x < 0 THEN -x ELSE x

\* tenths in a unit of price and of threshold
Tenths == 10

\* Subscription.min_percent_change's default, 1.0
DefaultMinPercentChange == 10

\* percent_change with previous price 0 taken as a change of 100 percent (mutant)
PercentChangeUnguarded(current_price, previous_price) ==
    IF previous_price /= 0
    THEN [num |-> 100 * (current_price - previous_price)
                      * (IF previous_price < 0 THEN -1 ELSE 1),
          den |-> Abs(previous_price)]
    ELSE [num |-> 100, den |-> 1]

\* (price_change / previous_data['price']) * 100 if previous_data['price'] != 0 else 0
PercentChange(current_price, previous_price) ==
    IF previous_price /= 0
    THEN [num |-> 100 * (current_price - previous_price)
                      * (IF previous_price < 0 THEN -1 ELSE 1),
          den |-> Abs(previous_price)]
    ELSE [num |-> 0, den |-> 1]

\* abs(percent_change) > subscription.min_percent_change (mutant)
ThresholdExceeded(percent_change, min_percent_change) ==
    Abs(percent_change.num) * Tenths > min_percent_change * percent_change.den

\* abs(percent_change) >= subscription.min_percent_change
ThresholdMet(percent_change, min_percent_change) ==
    Abs(percent_change.num) * Tenths >= min_percent_change * percent_change.den

\* current_data[current_data['Name'] == commodity_name], as row numbers (mutant)
RECURSIVE MatchingRowsCaseSensitive(_, _, _)
MatchingRowsCaseSensitive(frame, ix, commodity_name) ==
    IF ix = <<>> THEN <<>>
    ELSE (IF frame[Head(ix)].Name = commodity_name THEN <<Head(ix)>> ELSE <<>>)
         \o MatchingRowsCaseSensitive(frame, Tail(ix), commodity_name)

\* current_data[current_data['Name'].str.lower() == commodity_name.lower()], as
\* row numbers
RECURSIVE MatchingRows(_, _, _)
MatchingRows(frame, ix, commodity_name) ==
    IF ix = <<>> THEN <<>>
    ELSE (IF LowerAll(frame[Head(ix)].Name) = LowerAll(commodity_name)
          THEN <<Head(ix)>> ELSE <<>>)
         \o MatchingRows(frame, Tail(ix), commodity_name)

CurrentCommodity(subscription) ==
    MatchingRows(df, [i \in 1..Len(df) |-> i], subscription.commodity_name)

\* cursor.fetchone() after the query: the row of the name and asset, None when
\* the table holds none
FetchOne(commodity_name, asset_type) ==
    IF <<commodity_name, asset_type>> \in DOMAIN previous
    THEN previous[<<commodity_name, asset_type>>]
    ELSE None

\* _get_previous_day_data with a row of price 0 for a query without a row (mutant)
GetPreviousDayDataZero(commodity_name, asset_type) ==
    IF ~connected THEN [price |-> 0]
    ELSE IF FetchOne(commodity_name, asset_type) = None THEN [price |-> 0]
    ELSE FetchOne(commodity_name, asset_type)

\* AlertService._get_previous_day_data: None without a connection, else what
\* the query answers, the row or None
GetPreviousDayData(commodity_name, asset_type) ==
    IF ~connected THEN None
    ELSE FetchOne(commodity_name, asset_type)

\* the subscription the loop is at, its current row and its previous-day row
Subscription == subscriptions[si + 1]

CurrentRow == df[CurrentCommodity(Subscription)[1]]

PreviousData == GetPreviousDayData(Subscription.commodity_name, CurrentRow.Asset)

\* the arguments _get_previous_day_data is called with
Lookup == [commodity_name |-> Subscription.commodity_name, asset_type |-> CurrentRow.Asset]

\* the PriceAlert of the subscription the loop is at
Alert ==
    [commodity_name |-> CurrentRow.Name,
     asset_type |-> CurrentRow.Asset,
     current_price |-> CurrentRow.Price,
     previous_price |-> PreviousData.price,
     price_change |-> CurrentRow.Price - PreviousData.price,
     percent_change |-> PercentChange(CurrentRow.Price, PreviousData.price)]

\* the recipient a channel is asked to send to, None when it is not asked
Recipient(subscription, channel) ==
    IF channel = "EmailNotification" THEN subscription.email
    ELSE IF channel = "SMSNotification" THEN subscription.sms_number
    ELSE None

\* the channel.send calls of one alert, in channel order, ok[c] what
\* channel c's send returns
RECURSIVE Sends(_, _, _, _)
Sends(channels, c, alert, ok) ==
    IF c > Len(channels) THEN <<>>
    ELSE (IF Recipient(Subscription, channels[c]) /= None
          THEN << [sub |-> si + 1, channel |-> channels[c],
                   recipient |-> Recipient(Subscription, channels[c]),
                   alert |-> alert, ok |-> ok[c]] >>
          ELSE <<>>)
         \o Sends(channels, c + 1, alert, ok)

CallCheckAndSendAlerts ==
    /\ pc = "service"
    /\ alerts_sent' = 0
    /\ si' = 0
    /\ pc' = "checking"
    /\ UNCHANGED <<walkVars, cellVars, rankVars, runVars, subscriptions,
                   notification_channels, connected, previous, evaluated, sent>>

\* current_commodity.empty: continue
SkipNoCurrent ==
    /\ pc = "checking" /\ si < Len(subscriptions)
    /\ CurrentCommodity(Subscription) = <<>>
    /\ evaluated' = Append(evaluated, [sub |-> si + 1, outcome |-> "no_current",
                                       lookup |-> None])
    /\ si' = si + 1
    /\ UNCHANGED <<walkVars, cellVars, rankVars, runVars, subscriptions,
                   notification_channels, connected, previous, alerts_sent, sent, pc>>

\* previous_data is None: continue
SkipNoPrevious ==
    /\ pc = "checking" /\ si < Len(subscriptions)
    /\ CurrentCommodity(Subscription) /= <<>>
    /\ PreviousData = None
    /\ evaluated' = Append(evaluated, [sub |-> si + 1, outcome |-> "no_previous",
                                       lookup |-> Lookup])
    /\ si' = si + 1
    /\ UNCHANGED <<walkVars, cellVars, rankVars, runVars, subscriptions,
                   notification_channels, connected, previous, alerts_sent, sent, pc>>

\* the threshold is not met: nothing is sent
NoAlert ==
    /\ pc = "checking" /\ si < Len(subscriptions)
    /\ CurrentCommodity(Subscription) /= <<>>
    /\ PreviousData /= None
    /\ ~ThresholdMet(Alert.percent_change, Subscription.min_percent_change)
    /\ evaluated' = Append(evaluated, [sub |-> si + 1, outcome |-> "no_alert",
                                       lookup |-> Lookup,
                                       percent_change |-> Alert.percent_change])
    /\ si' = si + 1
    /\ UNCHANGED <<walkVars, cellVars, rankVars, runVars, subscriptions,
                   notification_channels, connected, previous, alerts_sent, sent, pc>>

\* the threshold is met: the alert goes to the channels, alerts_sent counts the
\* sends that returned True
SendAlert ==
    /\ pc = "checking" /\ si < Len(subscriptions)
    /\ CurrentCommodity(Subscription) /= <<>>
    /\ PreviousData /= None
    /\ ThresholdMet(Alert.percent_change, Subscription.min_percent_change)
    /\ \E ok \in [1..Len(notification_channels) -> BOOLEAN] :
          /\ \A c \in 1..Len(notification_channels) :
                Recipient(Subscription, notification_channels[c]) = None => ~ok[c]
          /\ sent' = sent \o Sends(notification_channels, 1, Alert, ok)
          /\ alerts_sent' = alerts_sent
                + Cardinality({c \in 1..Len(notification_channels) : ok[c]})
    /\ evaluated' = Append(evaluated, [sub |-> si + 1, outcome |-> "alert",
                                       lookup |-> Lookup,
                                       percent_change |-> Alert.percent_change])
    /\ si' = si + 1
    /\ UNCHANGED <<walkVars, cellVars, rankVars, runVars, subscriptions,
                   notification_channels, connected, previous, pc>>

ReturnAlertsSent ==
    /\ pc = "checking" /\ si = Len(subscriptions)
    /\ pc' = "alerts_returned"
    /\ UNCHANGED <<walkVars, cellVars, rankVars, runVars, alertVars>>

NextAlerts ==
    \/ CallCheckAndSendAlerts
    \/ SkipNoCurrent
    \/ SkipNoPrevious
    \/ NoAlert
    \/ SendAlert
    \/ ReturnAlertsSent

(* The services the alerts are checked on: the current data hold Gold at   *)
(* 99, 100.5 or 101 behind another commodity and before a record named     *)
(* gold of another category, the subscriptions name it in either case or   *)
(* name a commodity the data do not hold, and the previous-day query       *)
(* answers no row, price 0 or price 100.                                   *)

Gold == <<"G", "o", "l", "d">>

GoldLower == <<"g", "o", "l", "d">>

Oil == <<"O", "i", "l">>

Tin == <<"T", "i", "n">>

CurrentPrices == {990, 1005, 1010}

PreviousPrices == {0, 1000}

AlertFrame(price) ==
    << [Asset |-> "Energy", Name |-> Oil, Price |-> 700],
       [Asset |-> "Metals", Name |-> Gold, Price |-> price],
       [Asset |-> "Index", Name |-> GoldLower, Price |-> 700] >>

\* an email address or an SMS gateway address
Address(a) == [address |-> a]

\* Subscription(commodity_name, email, sms_number, min_percent_change)
Subscriptions ==
    { [commodity_name |-> name, email |-> c[1], sms_number |-> c[2],
       min_percent_change |-> c[3]] :
        name \in {Gold, GoldLower, Tin},
        c \in { <<Address("a@b.c"), None, DefaultMinPercentChange>>,
                <<Address("a@b.c"), Address("5551234567@vtext.com"),
                  DefaultMinPercentChange>>,
                <<Address("a@b.c"), None, 0>> } }

LookupKeys == {Gold, GoldLower} \X {"Metals"}

MaxSubs == 2

InitAlerts ==
    /\ WalkIdle /\ CellIdle
    /\ \E price \in CurrentPrices : df = AlertFrame(price)
    /\ period = "Daily %" /\ n = 0 /\ result = <<>>
    /\ \E len \in 0..MaxSubs : subscriptions \in [1..len -> Subscriptions]
    /\ notification_channels = <<"EmailNotification", "SMSNotification">>
    /\ connected \in BOOLEAN
    /\ previous \in [LookupKeys -> {None} \cup {[price |-> p] : p \in PreviousPrices}]
    /\ si = 0 /\ alerts_sent = 0 /\ evaluated = <<>> /\ sent = <<>>
    /\ html = <<>> /\ returned = <<>> /\ printed = "" /\ runs = <<>>
    /\ pc = "service"

SpecAlerts == InitAlerts /\ [][NextAlerts]_vars

(* CommoditiesApp.run.  fetch_page answers None or a page; run is made     *)
(* twice, and each run fetches anew.                                       *)

\* TableParser(html).parse_tables() of a new parser: the walk of WalkHeaderRow,
\* WalkDataRow and WalkOtherRow over all rows
RECURSIVE ParseTables(_, _, _)
ParseTables(rs, category, list) ==
    IF rs = <<>> THEN list
    ELSE IF Head(rs).th.present
         THEN ParseTables(Tail(rs), NextCategory(Head(rs), category), list)
    ELSE IF Len(Head(rs).cells) >= MinCols
         THEN LET commodity == ParseRow(Head(rs), category)
              IN  ParseTables(Tail(rs), category,
                              IF commodity /= None THEN Appended(list, commodity)
                              ELSE list)
    ELSE ParseTables(Tail(rs), category, list)

\* the CommodityDataManager run returns
DataManager(list) == [commodities |-> list]

RunRows ==
    { HeaderRow(EnergyTh),
      [th |-> NoTh, cells |-> GoldCells, fault |-> FALSE],
      [th |-> NoTh, cells |-> OilCells, fault |-> TRUE],
      [th |-> NoTh, cells |-> SubSeq(OilCells, 1, 7), fault |-> FALSE] }

MaxRunRows == 2

InitRun ==
    /\ WalkIdle /\ CellIdle /\ RankIdle /\ AppIdle
    /\ pc = "app"

\* the run is over: its outcome goes to the history
Ran(h, value, message) ==
    /\ html' = h
    /\ returned' = value
    /\ printed' = message
    /\ runs' = Append(runs, [html |-> h, returned |-> value, printed |-> message])
    /\ pc' = IF pc = "app" THEN "ran_once" ELSE "ran_twice"
    /\ UNCHANGED <<walkVars, cellVars, rankVars, alertVars>>

\* if not html: return
RunFetchFailed ==
    /\ pc \in {"app", "ran_once"}
    /\ \E h \in {None} : Ran(h, None, "Failed to fetch data.")

\* if not commodities: return
RunNoData ==
    /\ pc \in {"app", "ran_once"}
    /\ \E len \in 0..MaxRunRows : \E t \in [1..len -> RunRows] :
          /\ ParseTables(t, Unknown, <<>>) = <<>>
          /\ Ran([rows |-> t], None, "No commodities data found.")

\* return self.data_manager
RunData ==
    /\ pc \in {"app", "ran_once"}
    /\ \E len \in 0..MaxRunRows : \E t \in [1..len -> RunRows] :
          /\ ParseTables(t, Unknown, <<>>) /= <<>>
          /\ Ran([rows |-> t], DataManager(ParseTables(t, Unknown, <<>>)),
                 "Successfully parsed")

NextRun == RunFetchFailed \/ RunNoData \/ RunData

SpecRun == InitRun /\ [][NextRun]_vars

(* Claims about the table walker.  A header row is a row in which the     *)
(* walker finds a th cell; a data row is a row without one and with at     *)
(* least 8 td cells.  Rows are counted over all the calls made on the      *)
(* parser since its construction.                                          *)

\* the column-legend labels, as the specification lists them
LegendLabels ==
    { <<"P", "r", "i", "c", "e">>, <<"D", "a", "y">>, <<"%">>, <<"W", "e", "e", "k">>,
      <<"M", "o", "n", "t", "h">>, <<"Y", "e", "a", "r">>, <<"3", "Y">> }

IsHeaderRow(r) == r.th.present

HeaderTextOf(r) == GetText(r.th.frags)

\* a header row whose text is non-empty and not a column-legend label
IsCategoryHeader(r) ==
    IsHeaderRow(r) /\ HeaderTextOf(r) /= <<>> /\ HeaderTextOf(r) \notin LegendLabels

\* the text of the last category header among the first i - 1 walked rows
CategoryBefore(i) ==
    LET hs == {j \in 1..(i - 1) : IsCategoryHeader(RowAt(j))}
    IN  IF hs = {} THEN Unknown ELSE HeaderTextOf(RowAt(Max(hs)))

\* C1: each emitted record's category is the text of the most recent preceding
\* header row whose text is non-empty and not a column-legend label, and
\* "Unknown" when no such header row precedes the data row.
C1_CategoryInherited ==
    /\ Len(origin) = Len(commodities)
    /\ \A k \in 1..Len(commodities) :
          /\ origin[k] \in 1..WalkedLen
          /\ commodities[k].asset = CategoryBefore(origin[k])

\* a record inherits a category across a legend row, and another has none
C1_Witness ==
    \E k \in 1..Len(commodities) :
        /\ origin[k] >= 3
        /\ RowAt(origin[k] - 1) \in LegendRows
        /\ IsCategoryHeader(RowAt(origin[k] - 2))
        /\ commodities[k].asset = HeaderTextOf(RowAt(origin[k] - 2))
        /\ commodities[k].asset /= Unknown

\* C2: a second call of parse_tables on the same parser returns exactly the
\* record sequence the first call returned.
C2_Idempotent ==
    \A i \in 1..Len(returns) : returns[i] = returns[1]

\* a row without th cell that yields a record / that is dropped
IsValidDataRow(r) == ~IsHeaderRow(r) /\ Len(r.cells) >= 8 /\ ~r.fault

IsInvalidDataRow(r) == ~IsHeaderRow(r) /\ (Len(r.cells) < 8 \/ r.fault)

ValidCount == Cardinality({i \in 1..Len(rows) : IsValidDataRow(rows[i])})

InvalidCount == Cardinality({i \in 1..Len(rows) : IsInvalidDataRow(rows[i])})

CommodityFields ==
    {"asset", "name", "unit", "price", "change", "daily_pct", "weekly_pct",
     "monthly_pct", "yearly_pct", "three_year_pct", "date"}

\* C3: for a table of N valid data rows and one invalid data row at any
\* position, a call of parse_tables adds exactly N records (a new parser
\* returns exactly N); the invalid row yields no record, no record is partial,
\* and the rows after the invalid row are parsed.
C3_RowDropSafety ==
    /\ \A k \in 1..Len(commodities) :
          /\ DOMAIN commodities[k] = CommodityFields
          /\ ~IsInvalidDataRow(RowAt(origin[k]))
    /\ (pc = "ready" /\ calls >= 1 /\ InvalidCount = 1 =>
          Len(returns[calls]) =
              (IF calls = 1 THEN 0 ELSE Len(returns[calls - 1])) + ValidCount)

\* a new parser returned the records of the rows around a row that raised
C3_Witness ==
    /\ pc = "ready" /\ calls = 1 /\ InvalidCount = 1
    /\ Len(rows) = 3 /\ rows[2].fault
    /\ IsValidDataRow(rows[1]) /\ IsValidDataRow(rows[3])
    /\ Len(returns[1]) = 2

\* C4: the records are those of the processed data rows, one each and in
\* source row order; rows that are not header rows and have fewer than 8 data
\* cells add no record and do not change the tracked category; the call
\* returns the accumulated sequence.
C4_SourceOrder ==
    /\ Len(origin) = Len(commodities)
    /\ \A k \in 1..Len(origin) : \A l \in 1..Len(origin) :
          k < l => origin[k] < origin[l]
    /\ {origin[k] : k \in 1..Len(origin)} =
          {i \in 1..WalkedLen : IsValidDataRow(RowAt(i))}
    /\ \A k \in 1..Len(commodities) :
          commodities[k].name = SplitNameUnitFromCell(RowAt(origin[k]).cells[1])[1]
    /\ current_asset_category = CategoryBefore(WalkedLen + 1)
    /\ (pc = "ready" /\ calls >= 1 => returns[calls] = commodities)

\* two different data rows around a short row, returned in row order
C4_Witness ==
    /\ pc = "ready" /\ calls = 1 /\ Len(rows) = 3
    /\ IsHeaderRow(rows[1]) = FALSE /\ Len(rows[2].cells) < 8 /\ ~IsHeaderRow(rows[2])
    /\ Len(returns[1]) = 2
    /\ returns[1][1].name /= returns[1][2].name

IsCategoryName(c) == c /= <<>> /\ c \notin LegendLabels

\* the next row is a header row with empty text or a column-legend label
AtUnnamingHeader ==
    /\ pc = "walking" /\ pos < Len(rows)
    /\ IsHeaderRow(rows[pos + 1])
    /\ ~IsCategoryHeader(rows[pos + 1])

\* C5: in every state of the walk the tracked category and the category of
\* every emitted record is non-empty and no column-legend label; a header row
\* with empty or legend text leaves the tracked category unchanged.
C5_CategoryNeverLegend ==
    /\ [](/\ IsCategoryName(current_asset_category)
          /\ \A k \in 1..Len(commodities) : IsCategoryName(commodities[k].asset))
    /\ [][AtUnnamingHeader /\ pos' = pos + 1 =>
              current_asset_category' = current_asset_category]_vars

\* the walk has passed a legend row and a blank header under a known category
C5_Witness ==
    /\ pc = "walking" /\ pos = 3
    /\ IsCategoryHeader(rows[1])
    /\ rows[2] \in LegendRows
    /\ IsHeaderRow(rows[3]) /\ HeaderTextOf(rows[3]) = <<>>
    /\ current_asset_category = HeaderTextOf(rows[1])

\* a row with a label cell and no data cells
IsLabelOnlyRow(r) == r.th.present /\ Len(r.cells) = 0

\* C19: a row is a header row (it may update the tracked category and it
\* yields no record) if and only if it holds a label cell and no data cells; a
\* row with a label cell and 8 or more data cells is not a header row: it does
\* not change the tracked category and it is not skipped as a header.
C19_HeaderClassification ==
    [][ pc = "walking" /\ pos < Len(rows) /\ pos' = pos + 1 =>
          LET r == rows[pos + 1]
          IN  /\ IsLabelOnlyRow(r) => commodities' = commodities
              /\ ~IsLabelOnlyRow(r) =>
                    current_asset_category' = current_asset_category
              /\ r.th.present /\ Len(r.cells) >= 8 /\ ~r.fault =>
                    Len(commodities') = Len(commodities) + 1 ]_vars

(* Claims about the ranking engine.                                       *)

\* the number of rows of i's category that come before row i when the
\* category is ordered by the column, descending, ties in input order
RankInCategory(i, col) ==
    Cardinality({j \in 1..Len(df) :
        /\ df[j].Asset = df[i].Asset
        /\ \/ df[j][col] > df[i][col]
           \/ df[j][col] = df[i][col] /\ j < i})

CategorySize(c) == Cardinality({i \in 1..Len(df) : df[i].Asset = c})

FirstSeen(c) == Min({i \in 1..Len(df) : df[i].Asset = c})

AtMost(a, b) == IF a <= b THEN a ELSE b

\* C9: topByCategory returns, for each category in first-seen order, a block
\* of that category's min(n, size) records with the largest metric values, in
\* descending order, ties in input order; the blocks follow each other in
\* first-seen category order and hold records of their category only.
C9_TopByCategory ==
    pc = "top" =>
        /\ \A p \in 1..Len(result) :
              /\ result[p].row \in 1..Len(df)
              /\ result[p].Asset = df[result[p].row].Asset
              /\ result[p].Name = df[result[p].row].Name
              /\ result[p].Value = df[result[p].row][period]
        /\ \A p \in 1..Len(result) : \A q \in 1..Len(result) :
              p < q =>
                  IF result[p].Asset = result[q].Asset
                  THEN /\ result[p].Value >= result[q].Value
                       /\ RankInCategory(result[p].row, period)
                              < RankInCategory(result[q].row, period)
                  ELSE FirstSeen(result[p].Asset) < FirstSeen(result[q].Asset)
        /\ {result[p].row : p \in 1..Len(result)} =
              {i \in 1..Len(df) : RankInCategory(i, period) < n}
        /\ \A c \in Assets :
              Cardinality({p \in 1..Len(result) : result[p].Asset = c})
                  = AtMost(n, CategorySize(c))

\* two interleaved categories, the larger one cut to n < size with a tie at
\* the cut
C9_Witness ==
    /\ pc = "top" /\ Len(df) = 4 /\ n = 2
    /\ df[1].Asset = df[3].Asset /\ df[1].Asset = df[4].Asset
    /\ df[2].Asset /= df[1].Asset
    /\ df[1][period] < df[3][period] /\ df[1][period] = df[4][period]
    /\ Len(result) = 3
    /\ result[1].row = 3 /\ result[2].row = 1 /\ result[3].row = 2

\* the names among a category's top 3 of a period
InTop3(c, name, col) ==
    \E i \in 1..Len(df) :
        df[i].Asset = c /\ df[i].Name = name /\ RankInCategory(i, col) < 3

PeriodLabels == [x \in 1..4 |-> CASE x = 1 -> "D" [] x = 2 -> "W"
                                  [] x = 3 -> "M" [] x = 4 -> "Y"]

\* the periods in whose category top 3 the entry's name is
PeriodsOf(e) == {x \in 1..4 : InTop3(e.Asset, e.Name, Periods[x])}

\* C11: for every strongLeads entry, matchCount is the number of periods among
\* daily, weekly, monthly, yearly in whose category top 3 the entry's name is,
\* matchedPeriods is exactly that set of periods, 1 <= matchCount <= 4, and an
\* entry in the top 3 of all four periods has matchCount 4.
C11_MatchCount ==
    pc = "leads" =>
        \A p \in 1..Len(result) :
            LET e == result[p]
            IN  /\ e.match_count = Cardinality(PeriodsOf(e))
                /\ {e.periods[y] : y \in 1..Len(e.periods)}
                      = {PeriodLabels[x] : x \in PeriodsOf(e)}
                /\ Len(e.periods) = Cardinality(PeriodsOf(e))
                /\ e.match_count \in 1..4
                /\ (PeriodsOf(e) = 1..4 => e.match_count = 4)

\* one entry is in all four top 3s, another one in the yearly top 3 alone, a
\* third one in two of them
C11_Witness ==
    /\ pc = "leads"
    /\ \E p \in 1..Len(result) :
          PeriodsOf(result[p]) = 1..4 /\ result[p].match_count = 4
    /\ \E p \in 1..Len(result) :
          PeriodsOf(result[p]) = {4} /\ result[p].periods = <<"Y">>
    /\ \E p \in 1..Len(result) : result[p].match_count = 2

\* rank is 1..N in output order; the rankWithinCategory values of each category
\* are exactly 1..k and grow with the rank
RanksInOrder(s) ==
    /\ \A p \in 1..Len(s) : s[p].Rank = p
    /\ \A c \in Assets :
          LET P == {p \in 1..Len(s) : s[p].Asset = c}
          IN  /\ {s[p].Rank_Asset : p \in P} = 1..Cardinality(P)
              /\ \A p \in P : \A q \in P :
                    s[p].Rank < s[q].Rank => s[p].Rank_Asset < s[q].Rank_Asset

\* C12: in strongLeads and in each investmentOpportunities bucket, rank takes
\* the values 1..N in output order, and for every category the
\* rankWithinCategory values are exactly 1..k without gaps or repeats, a
\* running per-category counter in increasing rank order.
C12_Ranks ==
    /\ pc = "leads" => RanksInOrder(result)
    /\ pc = "opportunities" => \A key \in TimeframeKeys : RanksInOrder(result[key])

\* strong leads of two categories interleaved in the output: the second entry
\* of a category has rank 3 and rankWithinCategory 2
C12_Witness ==
    /\ pc = "leads" /\ Len(result) >= 4
    /\ result[1].Asset = result[3].Asset /\ result[2].Asset /= result[1].Asset
    /\ result[2].Asset = result[4].Asset
    /\ result[3].Rank = 3 /\ result[3].Rank_Asset = 2
    /\ result[4].Rank = 4 /\ result[4].Rank_Asset = 2

\* the metric each timeframe ranks by, and the two metrics it requires positive
PrimaryMetric ==
    [key \in {"short_term", "mid_term", "long_term"} |->
        CASE key = "short_term" -> "Daily %"
          [] key = "mid_term" -> "Weekly %"
          [] key = "long_term" -> "Yearly %"]

RequiredMetrics ==
    [key \in {"short_term", "mid_term", "long_term"} |->
        CASE key = "short_term" -> {"Daily %", "Weekly %"}
          [] key = "mid_term" -> {"Weekly %", "Monthly %"}
          [] key = "long_term" -> {"Yearly %", "Monthly %"}]

Qualifies(i, key) == \A col \in RequiredMetrics[key] : df[i][col] > 0

\* row i is the record of its category with the highest primary metric among
\* the qualifying ones, the first one in input order on ties
IsBest(i, key) ==
    /\ Qualifies(i, key)
    /\ \A j \in 1..Len(df) :
          df[j].Asset = df[i].Asset /\ Qualifies(j, key) =>
              \/ df[j][PrimaryMetric[key]] < df[i][PrimaryMetric[key]]
              \/ df[j][PrimaryMetric[key]] = df[i][PrimaryMetric[key]] /\ i <= j

\* C13: investmentOpportunities selects, per category and timeframe, the record
\* with the highest primary metric (daily% short-term, weekly% mid-term, yearly%
\* long-term) among the records whose two required metrics are both strictly
\* greater than 0, the first in input order on ties; a record failing the
\* dual-positive condition is never selected, and a category without a
\* qualifying record contributes nothing to the bucket.
C13_DualPositive ==
    pc = "opportunities" =>
        \A key \in {"short_term", "mid_term", "long_term"} :
            /\ \A p \in 1..Len(result[key]) :
                  LET e == result[key][p]
                  IN  /\ e.row \in 1..Len(df)
                      /\ e.Asset = df[e.row].Asset /\ e.Name = df[e.row].Name
                      /\ Qualifies(e.row, key)
            /\ {result[key][p].row : p \in 1..Len(result[key])}
                  = {i \in 1..Len(df) : IsBest(i, key)}
            /\ Len(result[key]) = Cardinality({i \in 1..Len(df) : IsBest(i, key)})

\* in one category the record with the largest daily% has a negative weekly%
\* and two qualifying records tie below it, the first of them is the short-term
\* pick; the other category holds the record daily% -2, weekly% 3 alone and
\* gives nothing to the short-term bucket, and a zero monthly% keeps it out of
\* the long-term bucket
C13_Witness ==
    /\ pc = "opportunities" /\ Len(df) = 4
    /\ df[1].Asset = df[2].Asset /\ df[2].Asset = df[3].Asset
    /\ df[4].Asset /= df[1].Asset
    /\ df[1]["Daily %"] = 7 /\ df[1]["Weekly %"] = -1
    /\ df[2]["Daily %"] = 5 /\ df[3]["Daily %"] = 5
    /\ df[4]["Daily %"] = -2 /\ df[4]["Weekly %"] = 3 /\ df[4]["Monthly %"] = 0
    /\ Len(result["short_term"]) = 1 /\ result["short_term"][1].row = 2
    /\ \A p \in 1..Len(result["long_term"]) : result["long_term"][p].row /= 4

\* the categories with a record that qualifies for the timeframe
ContributingCategories(key) ==
    {df[i].Asset : i \in {j \in 1..Len(df) : Qualifies(j, key)}}

\* C22: in each investmentOpportunities bucket every category contributes at
\* most one entry, so rankWithinCategory is 1 for every entry of every bucket
\* and rank enumerates the contributing categories in first-seen order.
C22_OnePerCategory ==
    pc = "opportunities" =>
        \A key \in {"short_term", "mid_term", "long_term"} :
            LET bucket == result[key]
            IN  /\ \A p \in 1..Len(bucket) : \A q \in 1..Len(bucket) :
                      p /= q => bucket[p].Asset /= bucket[q].Asset
                /\ \A p \in 1..Len(bucket) :
                      bucket[p].Rank_Asset = 1 /\ bucket[p].Rank = p
                /\ {bucket[p].Asset : p \in 1..Len(bucket)} = ContributingCategories(key)
                /\ \A p \in 1..Len(bucket) : \A q \in 1..Len(bucket) :
                      p < q => FirstSeen(bucket[p].Asset) < FirstSeen(bucket[q].Asset)

\* the first record of the first category does not qualify, the second
\* category's record comes next and two qualifying records of the first
\* category follow: the short-term bucket holds one entry of each category,
\* the first category's first, both with rankWithinCategory 1
C22_Witness ==
    /\ pc = "opportunities" /\ Len(df) = 4
    /\ df[1].Asset = df[3].Asset /\ df[3].Asset = df[4].Asset
    /\ df[2].Asset /= df[1].Asset
    /\ ~Qualifies(1, "short_term") /\ Qualifies(2, "short_term")
    /\ Qualifies(3, "short_term") /\ Qualifies(4, "short_term")
    /\ Len(result["short_term"]) = 2
    /\ result["short_term"][1].Asset = df[1].Asset
    /\ result["short_term"][1].Rank = 1 /\ result["short_term"][1].Rank_Asset = 1
    /\ result["short_term"][2].row = 2
    /\ result["short_term"][2].Rank = 2 /\ result["short_term"][2].Rank_Asset = 1

\* the name of record i is in the top 3 of some period of its category
NameIsLead(i) == \E x \in 1..4 : InTop3(df[i].Asset, df[i].Name, Periods[x])

\* record i itself is in the top 3 of no period of its category
InNoTop3(i) == \A x \in 1..4 : RankInCategory(i, Periods[x]) >= 3

\* no two records of one category have the same name
NamesUnique ==
    \A i \in 1..Len(df) : \A j \in 1..Len(df) :
        i /= j /\ df[i].Asset = df[j].Asset => df[i].Name /= df[j].Name

\* C23: strongLeads selects and scores by name: every record whose name is in
\* some period's top 3 of its category is emitted, once, also a record that is
\* itself in no top 3; the entries of one category and name carry the same
\* matchCount and matchedPeriods; with unique names per category no (category,
\* name) appears twice.
C23_ByName ==
    pc = "leads" =>
        /\ \A i \in 1..Len(df) :
              NameIsLead(i) =>
                  Cardinality({p \in 1..Len(result) : result[p].row = i}) = 1
        /\ \A p \in 1..Len(result) :
              /\ result[p].row \in 1..Len(df)
              /\ result[p].Asset = df[result[p].row].Asset
              /\ result[p].Name = df[result[p].row].Name
        /\ \A p \in 1..Len(result) : \A q \in 1..Len(result) :
              result[p].Asset = result[q].Asset /\ result[p].Name = result[q].Name =>
                  /\ result[p].match_count = result[q].match_count
                  /\ result[p].periods = result[q].periods
        /\ NamesUnique =>
              \A p \in 1..Len(result) : \A q \in 1..Len(result) :
                  p /= q => <<result[p].Asset, result[p].Name>>
                               /= <<result[q].Asset, result[q].Name>>

\* a record that is in no top 3 itself is emitted because an earlier record of
\* its category has its name and is in a top 3, with that record's matchCount
\* and matchedPeriods
C23_Witness ==
    /\ pc = "leads"
    /\ \E i \in 1..Len(df) : \E j \in 1..Len(df) :
          /\ i /= j /\ df[i].Asset = df[j].Asset /\ df[i].Name = df[j].Name
          /\ InNoTop3(i) /\ ~InNoTop3(j)
          /\ \E p \in 1..Len(result) : \E q \in 1..Len(result) :
                /\ result[p].row = i /\ result[q].row = j
                /\ result[p].match_count = result[q].match_count
                /\ result[p].match_count >= 1
                /\ result[p].periods = result[q].periods

\* C14: an empty record sequence yields an empty result, not an error, for
\* every ranking operation: topByMetric, topByCategory, strongLeads and each of
\* the three investmentOpportunities buckets complete without raising and
\* return empty collections.
C14_EmptyInput ==
    df = <<>> /\ pc /= "frame" =>
        /\ pc /= "raised"
        /\ pc \in {"performers", "top", "leads"} => result = <<>>
        /\ pc = "opportunities" =>
              \A key \in {"short_term", "mid_term", "long_term"} : result[key] = <<>>

\* the key of a strongLeads entry
LeadKey(e) ==
    IF e.match_count = 1 THEN <<e.match_count, e.Daily, e.Weekly>>
    ELSE <<e.match_count, e.Weekly, e.Monthly>>

\* a > b, component by component from the left
LexGreater(a, b) ==
    \E x \in 1..3 : a[x] > b[x] /\ \A y \in 1..(x - 1) : a[y] = b[y]

\* e is before f where the per-category blocks are concatenated: categories in
\* first-seen order, input order inside a category
ConcatBefore(e, f) ==
    \/ FirstSeen(e.Asset) < FirstSeen(f.Asset)
    \/ e.Asset = f.Asset /\ e.row < f.row

\* C20: the strongLeads output is in descending order of the key (matchCount,
\* daily%, weekly%) when matchCount = 1 and (matchCount, weekly%, monthly%)
\* otherwise, compared lexicographically across all categories, and the sort is
\* stable: entries of equal key keep the order of the concatenation.
C20_StableDescending ==
    pc = "leads" =>
        \A p \in 1..Len(result) : \A q \in 1..Len(result) :
            p < q =>
                \/ LexGreater(LeadKey(result[p]), LeadKey(result[q]))
                \/ /\ LeadKey(result[p]) = LeadKey(result[q])
                   /\ ConcatBefore(result[p], result[q])

(* Claims about the alert service.  They are stated on the subscriptions   *)
(* the running call has gone past, 1..si.                                  *)

\* the current record of subscription i: the first record of its name
HasCurrent(i) ==
    \E r \in 1..Len(df) :
        LowerAll(df[r].Name) = LowerAll(subscriptions[i].commodity_name)

CurrentOf(i) ==
    df[Min({r \in 1..Len(df) :
              LowerAll(df[r].Name) = LowerAll(subscriptions[i].commodity_name)})]

\* the previous-price lookup of subscription i answers not-found
NotFound(i) ==
    \/ ~connected
    \/ previous[<<subscriptions[i].commodity_name, CurrentOf(i).Asset>>] = None

PreviousPriceOf(i) ==
    previous[<<subscriptions[i].commodity_name, CurrentOf(i).Asset>>].price

Fired(i) ==
    \E k \in 1..Len(evaluated) : evaluated[k].sub = i /\ evaluated[k].outcome = "alert"

Notified(i) == \E k \in 1..Len(sent) : sent[k].sub = i

\* abs((current - previous) / previous * 100) >= threshold, cleared of the
\* division, the threshold in tenths of a percent
ChangeReaches(current, prev, threshold) ==
    Abs(current - prev) * 100 * 10 >= threshold * Abs(prev)

\* C15: for a subscription with a current record and a found previous price, an
\* alert fires if and only if abs(percentChange) >= minPercentChange, where
\* percentChange = (current.price - previous.price) / previous.price * 100; the
\* comparison is inclusive, and no notification is sent for a subscription
\* whose alert did not fire.
C15_ThresholdInclusive ==
    /\ \A i \in 1..si :
          HasCurrent(i) /\ ~NotFound(i) /\ PreviousPriceOf(i) /= 0 =>
              (Fired(i) <=> ChangeReaches(CurrentOf(i).Price, PreviousPriceOf(i),
                                          subscriptions[i].min_percent_change))
    /\ \A i \in 1..si : Notified(i) => Fired(i)

\* previous 100, current 101, threshold 1.0: the alert fires and is sent; a
\* later subscription of the same call does not fire and nothing is sent for it
C15_Witness ==
    /\ pc = "alerts_returned" /\ si = 2
    /\ HasCurrent(1) /\ CurrentOf(1).Price = 1010
    /\ ~NotFound(1) /\ PreviousPriceOf(1) = 1000
    /\ subscriptions[1].min_percent_change = 10
    /\ Fired(1) /\ Notified(1)
    /\ HasCurrent(2) /\ ~NotFound(2) /\ ~Fired(2) /\ ~Notified(2)

\* C16: when the previous price is 0 the evaluation does not divide by zero:
\* percentChange is 0 whatever the current price, so the alert fires only if
\* minPercentChange <= 0.
C16_ZeroPrevious ==
    \A i \in 1..si :
        HasCurrent(i) /\ ~NotFound(i) /\ PreviousPriceOf(i) = 0 =>
            /\ \E k \in 1..Len(evaluated) :
                  /\ evaluated[k].sub = i
                  /\ evaluated[k].outcome \in {"alert", "no_alert"}
                  /\ evaluated[k].percent_change.num = 0
            /\ Fired(i) <=> subscriptions[i].min_percent_change <= 0

\* previous price 0 under a threshold of 0 fires, under a threshold of 1.0 it
\* does not
C16_Witness ==
    /\ pc = "alerts_returned" /\ si = 2
    /\ HasCurrent(1) /\ ~NotFound(1) /\ PreviousPriceOf(1) = 0
    /\ subscriptions[1].min_percent_change = 0 /\ Fired(1)
    /\ HasCurrent(2) /\ ~NotFound(2) /\ PreviousPriceOf(2) = 0
    /\ subscriptions[2].min_percent_change = 10 /\ ~Fired(2)

\* C17: when the previous-price lookup answers not-found for a subscription,
\* the subscription gives no alert and no notification in this cycle, it is not
\* taken as a zero-change alert, and every later subscription of the list is
\* still evaluated.
C17_MissingLookup ==
    /\ \A i \in 1..si :
          HasCurrent(i) /\ NotFound(i) =>
              /\ ~Fired(i) /\ ~Notified(i)
              /\ \E k \in 1..Len(evaluated) :
                    evaluated[k].sub = i /\ evaluated[k].outcome = "no_previous"
    /\ Len(evaluated) = si
    /\ \A k \in 1..Len(evaluated) : evaluated[k].sub = k
    /\ pc = "alerts_returned" => si = Len(subscriptions)

\* the first subscription's lookup finds nothing though its threshold is 0, the
\* second one is evaluated after it and fires
C17_Witness ==
    /\ pc = "alerts_returned" /\ si = 2
    /\ HasCurrent(1) /\ NotFound(1) /\ connected
    /\ subscriptions[1].min_percent_change = 0
    /\ ~Fired(1) /\ ~Notified(1)
    /\ Fired(2) /\ Notified(2)

\* the channel.send calls made for subscription i
SendsOf(i) == {k \in 1..Len(sent) : sent[k].sub = i}

\* C24: check_and_send_alerts evaluates each subscription, in subscription
\* order, against the first current record (in record order) whose name equals
\* the subscription's commodity name ignoring case, whatever that record's
\* category; a subscription whose name matches no current record triggers no
\* previous-price lookup, no alert and no send; the returned count equals the
\* number of channel sends that reported success.
C24_FirstMatchAndCount ==
    /\ Len(evaluated) = si
    /\ \A i \in 1..si :
          /\ evaluated[i].sub = i
          /\ IF HasCurrent(i)
             THEN /\ evaluated[i].outcome /= "no_current"
                  /\ evaluated[i].lookup
                        = [commodity_name |-> subscriptions[i].commodity_name,
                           asset_type |-> CurrentOf(i).Asset]
                  /\ \A k \in SendsOf(i) :
                        /\ sent[k].alert.commodity_name = CurrentOf(i).Name
                        /\ sent[k].alert.asset_type = CurrentOf(i).Asset
                        /\ sent[k].alert.current_price = CurrentOf(i).Price
             ELSE /\ evaluated[i].outcome = "no_current"
                  /\ evaluated[i].lookup = None
                  /\ ~Fired(i) /\ SendsOf(i) = {}
    /\ \A k \in 1..Len(sent) : \A l \in 1..Len(sent) :
          k < l => sent[k].sub <= sent[l].sub
    /\ alerts_sent = Cardinality({k \in 1..Len(sent) : sent[k].ok})
    /\ pc = "alerts_returned" => si = Len(subscriptions)

\* a subscription of a name the data do not hold is passed without lookup; the
\* next one, gold, is matched with the record Gold of Metals though a later
\* record of another category is named gold, its alert goes to two channels,
\* one send fails, and the call returns 1
C24_Witness ==
    /\ pc = "alerts_returned" /\ si = 2
    /\ ~HasCurrent(1) /\ evaluated[1].lookup = None /\ SendsOf(1) = {}
    /\ subscriptions[2].commodity_name = GoldLower
    /\ HasCurrent(2) /\ CurrentOf(2).Name = Gold /\ CurrentOf(2).Asset = "Metals"
    /\ \E r \in 1..Len(df) : df[r].Name = GoldLower /\ df[r].Asset /= "Metals"
    /\ Fired(2) /\ Len(sent) = 2
    /\ sent[1].alert.asset_type = "Metals" /\ sent[1].alert.commodity_name = Gold
    /\ sent[1].ok /\ ~sent[2].ok
    /\ alerts_sent = 1

(* Claims about the application.                                           *)

\* the page was obtained and no row of it gave a record
IsNoDataRun(r) == r.html /= None /\ ParseTables(r.html.rows, Unknown, <<>>) = <<>>

\* the page was not obtained
IsFailedRun(r) == r.html = None

\* C18: a run in which the page was obtained but zero rows matched the
\* expected shape is reported to the caller as a "no data" outcome that the
\* caller can tell from a failure outcome (page not obtained): the two
\* outcomes are never the same returned value.
C18_NoDataDistinct ==
    \A a \in 1..Len(runs) : \A b \in 1..Len(runs) :
        IsNoDataRun(runs[a]) /\ IsFailedRun(runs[b]) =>
            runs[a].returned /= runs[b].returned

(* Claims about the cell normalizers.                                      *)

\* the text is a signed decimal number once the separators the normalizer
\* drops (commas, spaces, percent signs) are removed
IsDecimalText(s) ==
    LET t == Strip(Remove(Remove(Remove(s, ","), "%"), " "))
        body == IF t /= <<>> /\ Head(t) \in {"+", "-"} THEN Tail(t) ELSE t
    IN  IsDecimal(body)

\* C6: parseNumber and parsePercentage return a finite float for every text
\* and never raise; a text that is not a decimal number yields 0.0.
C6_FallbackTotality ==
    pc \in {"number", "percentage"} =>
        /\ IsFinite(out)
        /\ (~IsDecimalText(text) => out = Zero)

Blank(s) == Strip(s) = <<>>

TwoParts(s) == Len(Split(s, "/")) = 2

\* the part before the first "/" starts with a month abbreviation
MonthRecognized(s) ==
    LET first == Split(Strip(s), "/")[1]
    IN  first /= <<>> /\ MonthNum(first[1]) /= 0

IsText(s) == DOMAIN s = 1..Len(s)

NonEmptyFragments(cell) ==
    SelectSeq([i \in 1..Len(cell) |-> Strip(cell[i])], LAMBDA f : f /= <<>>)

\* the positions of the whitespace characters of a fragment
WhitespaceAt(f) == {i \in 1..Len(f) : f[i] \in Whitespace}

\* C21: with two or more non-empty fragments the first is the name and the
\* second the unit; with exactly one fragment the name and the unit are the
\* parts before and after its last whitespace character (any whitespace
\* character), the unit being empty when the fragment has none; with no
\* fragment both are empty.
C21_NameUnitSplit ==
    pc = "name_unit" =>
        LET fragments == NonEmptyFragments(text)
        IN  /\ Len(fragments) >= 2 => out = <<fragments[1], fragments[2]>>
            /\ Len(fragments) = 1 =>
                  LET f == fragments[1]
                      at == WhitespaceAt(f)
                  IN  IF at = {} THEN out = <<f, <<>>>>
                      ELSE out = <<SubSeq(f, 1, Max(at) - 1),
                                   SubSeq(f, Max(at) + 1, Len(f))>>
            /\ Len(fragments) = 0 => out = << <<>>, <<>> >>

\* "<Mon>/<Day>": a month abbreviation, a slash, a day of that month
WellFormedDate(s, y) ==
    /\ Len(s) >= 3 /\ MonthNum(s[1]) /= 0 /\ s[2] = "/"
    /\ IsDayToken(SubSeq(s, 3, Len(s)))
    /\ DigitsToNat(SubSeq(s, 3, Len(s))) <= DaysIn(MonthNum(s[1]), y)

\* C8: for a well-formed "<Mon>/<Day>" parseDate returns YYYY/MM/DD with YYYY
\* the reference year of the call, MM the month number and DD the day, both
\* zero-padded to two digits.
C8_ReferenceYear ==
    pc = "date" /\ WellFormedDate(text, referenceYear) =>
        out = Strftime(referenceYear, MonthNum(text[1]),
                       DigitsToNat(SubSeq(text, 3, Len(text))))

====
